---- MODULE Spec2Model ----
\* The generic in-memory CRUD service of the admin panel (generateCrudService)
\* and its callers, as a state machine.  One service instance over one `items`
\* array is modelled; every call is an async function that first awaits
\* delay(ms) (a setTimeout) and then runs its body to completion.
EXTENDS Integers, Sequences, FiniteSets, TLC

VARIABLES
    arrays,   \* the heap of arrays: "items" is the service's array, "copy" the
              \* array most recently created by a spread ([...items])
    held,     \* which array the caller holds as its list state ("none" at first)
    calls,    \* every call made so far, in call order, with its timer and outcome
    now,      \* the clock, in ms
    nEffects, \* how many call bodies have run
    client,   \* "awaiting": each call is awaited before the next is made (the
              \* pages); "concurrent": calls are made without awaiting; "page":
              \* calls are made by the handlers of a mounted page; "burst":
              \* calls are made without awaiting within the first time unit;
              \* "ids": awaited calls that delete the records with the
              \* largest ids;
              \* "db": awaited calls on the arrays of all entities
    db,       \* the module's arrays of all entities, the lists a page fetched
              \* from them and the last awaited operation on them
    page,     \* a page component: mounted or not, its dialog, its handlers
              \* in flight and the notifications they raised
    auth,     \* the AuthProvider: its state, localStorage and the logins and
              \* logouts called
    table     \* a DataTable: its data prop, search term and current page

vars == <<arrays, held, calls, now, nEffects, client, db, page, auth, table>>

\* ---------------------------------------------------------------- bounds

MaxCalls == 3

\* ---------------------------------------------------------------- values

\* JavaScript values that can be an id: a number, or a string of digits (the
\* string whose digits read n).
Num(n) == [t |-> "number", n |-> n]
Str(n) == [t |-> "string", n |-> n]
Undefined == [t |-> "undefined"]
Bool(b) == [t |-> "boolean", b |-> b]

\* x == y of JavaScript on ids: a numeric string is converted to its number.
LooseEquals(x, y) == x.n = y.n

\* x === y: same type and same value, no conversion.
StrictEquals(x, y) == x.t = y.t /\ x.n = y.n

\* Number(v): a number is itself, a string of digits is the number it reads
\* (both are held as n).
Number(v) == v.n

SetMax(S) == CHOOSE m \in S : \A x \in S : x <= m
SetMin(S) == CHOOSE m \in S : \A x \in S : m <= x

\* Math.max(...xs) over a non-empty list.
MathMax(xs) == SetMax({xs[i] : i \in 1..Len(xs)})

\* ---------------------------------------------------------------- records

primaryKey == "id"

\* { ...a, ...b }: b's fields laid over a's.
Spread(a, b) ==
    [f \in DOMAIN a \cup DOMAIN b |-> IF f \in DOMAIN b THEN b[f] ELSE a[f]]

NoFields == [f \in {} |-> 0]

\* The seed arrays hold records with the keys 1..n in order (n is 1, 2 or 3
\* in the source); the data fields are abstracted to a name and a date.
SeedRecord(i) == [id |-> Num(i), name |-> "seed", date |-> 1]
SeedItems(n) == [i \in 1..n |-> SeedRecord(i)]
SeedLengths == {1, 3}

\* ---------------------------------------------------------------- delays

DelayGetAll == 300
DelayGetById == 200
DelayCreate == 400
DelayUpdate == 400
DelayDelete == 300

Delays == {DelayGetAll, DelayGetById, DelayCreate, DelayUpdate, DelayDelete}

\* The clock advances in steps of the greatest common divisor of the delays.
TimeUnit == SetMax({d \in 1..DelayGetById : \A x \in Delays : x % d = 0})

\* ---------------------------------------------------------------- bodies
\* The body of each operation after its await, as a function of the array `its`
\* it finds: the array it leaves and the value it resolves to.

items == arrays.items

\* items.find(item => item[primaryKey] === id)
find(its, id) ==
    IF \E i \in 1..Len(its) : StrictEquals(its[i][primaryKey], id)
    THEN its[CHOOSE i \in 1..Len(its) :
                /\ StrictEquals(its[i][primaryKey], id)
                /\ \A j \in 1..(i-1) : ~StrictEquals(its[j][primaryKey], id)]
    ELSE Undefined

\* items.findIndex(item => item[primaryKey] === id): 0-based, -1 when absent.
findIndex(its, id) ==
    IF \E i \in 1..Len(its) : StrictEquals(its[i][primaryKey], id)
    THEN (CHOOSE i \in 1..Len(its) :
                /\ StrictEquals(its[i][primaryKey], id)
                /\ \A j \in 1..(i-1) : ~StrictEquals(its[j][primaryKey], id)) - 1
    ELSE -1

\* A slip: the test of the filter written === instead of !==.
filter_inverted(its, id) ==
    LET keep(r) == StrictEquals(r[primaryKey], id) IN SelectSeq(its, keep)

\* items.filter(item => item[primaryKey] !== id)
filter(its, id) ==
    LET keep(r) == ~StrictEquals(r[primaryKey], id) IN SelectSeq(its, keep)

getAll(its) == [items |-> its, res |-> its]

getById(its, id) == [items |-> its, res |-> find(its, id)]

\* A slip: the next id taken from the array's length.
maxId_length(its) == Len(its)

\* A slip: a high-water mark, the ids are never given out twice.
maxId_highWater(its) ==
    SetMax({0} \cup {Number(its[i][primaryKey]) : i \in 1..Len(its)}
               \cup {calls[i].res.id.n :
                        i \in {j \in 1..Len(calls) : calls[j].done /\ calls[j].op = "create"}})

maxId(its) ==
    IF Len(its) > 0
    THEN MathMax([i \in 1..Len(its) |-> Number(its[i][primaryKey])])
    ELSE 0

\* A slip: items.unshift(newItem) instead of items.push(newItem).
create_unshift(its, item) ==
    LET newId == maxId(its) + 1
        newItem == Spread(item, [f \in {primaryKey} |-> Num(newId)])
    IN [items |-> <<newItem>> \o its, res |-> newItem]

\* A slip: the spread written last, { [primaryKey]: newId, ...item }.
create_callerKey(its, item) ==
    LET newId == maxId(its) + 1
        newItem == Spread([f \in {primaryKey} |-> Num(newId)], item)
    IN [items |-> Append(its, newItem), res |-> newItem]

create(its, item) ==
    LET newId == maxId(its) + 1
        newItem == Spread(item, [f \in {primaryKey} |-> Num(newId)])
    IN [items |-> Append(its, newItem), res |-> newItem]

\* A slip: the spread written the other way round, { ...updates, ...items[index] }.
update_underlay(its, id, updates) ==
    LET index == findIndex(its, id) IN
    IF index = -1
    THEN [items |-> its, res |-> Undefined]
    ELSE LET merged == Spread(updates, its[index + 1])
         IN [items |-> [its EXCEPT ![index + 1] = merged], res |-> merged]

update(its, id, updates) ==
    LET index == findIndex(its, id) IN
    IF index = -1
    THEN [items |-> its, res |-> Undefined]
    ELSE LET merged == Spread(its[index + 1], updates)
         IN [items |-> [its EXCEPT ![index + 1] = merged], res |-> merged]

\* A slip: the early return for "nothing removed" left out.
delete_noCheck(its, id) == [items |-> filter(its, id), res |-> Bool(TRUE)]

\* A slip: items.length = 0 left out before items.push(...filtered).
delete_noClear(its, id) ==
    LET filtered == filter(its, id)
    IN IF Len(filtered) = Len(its)
       THEN [items |-> its, res |-> Bool(FALSE)]
       ELSE [items |-> its \o filtered, res |-> Bool(TRUE)]

\* A slip: only the first matching record spliced out.
delete_firstOnly(its, id) ==
    LET index == findIndex(its, id) IN
    IF index = -1
    THEN [items |-> its, res |-> Bool(FALSE)]
    ELSE [items |-> SubSeq(its, 1, index) \o SubSeq(its, index + 2, Len(its)),
          res |-> Bool(TRUE)]

delete(its, id) ==
    LET initialLength == Len(its)
        filtered == filter(its, id)
    IN IF Len(filtered) = initialLength
       THEN [items |-> its, res |-> Bool(FALSE)]
       ELSE [items |-> filtered, res |-> Bool(TRUE)]

\* ---------------------------------------------------------------- inputs

IdArgs ==
    CASE client = "awaiting" -> {Num(1), Num(2), Num(4), Str(1)}
      [] client = "ids" -> {Num(2), Num(3), Num(4)}
      [] OTHER -> {Num(1)}

CreateArgs ==
    IF client = "awaiting"
    THEN {[name |-> "new", date |-> 0], [name |-> "bare"]}
    ELSE {[name |-> "new", date |-> 0]}

UpdateArgs ==
    IF client = "awaiting"
    THEN {[name |-> "upd"], [id |-> Num(2), name |-> "dup"]}
    ELSE {[name |-> "upd"]}

\* ---------------------------------------------------------------- calls

Pending == {i \in 1..Len(calls) : ~calls[i].done}

\* A call just made: its promise is pending and res holds no result yet (an
\* empty array for getAll, whose result is an array).
NewCall(op, id, arg, delay) ==
    [op |-> op, id |-> id, arg |-> arg, delay |-> delay,
     tCall |-> now, due |-> now + delay, done |-> FALSE,
     atCall |-> items, before |-> <<>>, after |-> <<>>,
     res |-> IF op = "getAll" THEN <<>> ELSE Undefined,
     ref |-> "none", order |-> 0]

\* The time within which a caller that calls in a burst makes its calls.
CallWindow == TimeUnit

\* The callers that await each call before they make the next.
Awaits == client \in {"awaiting", "ids"}

\* An awaiting caller makes no call while one is pending.
MayCall ==
    /\ Len(calls) < MaxCalls
    /\ Awaits => Pending = {}
    /\ client = "burst" => now <= CallWindow

Call(op, id, arg, delay) ==
    /\ MayCall
    /\ calls' = Append(calls, NewCall(op, id, arg, delay))
    /\ UNCHANGED <<arrays, held, now, nEffects, client, db, page, auth, table>>

CallGetAll == Call("getAll", Undefined, NoFields, DelayGetAll)

CallGetById == \E id \in IdArgs : Call("getById", id, NoFields, DelayGetById)

CallCreate == \E item \in CreateArgs : Call("create", Undefined, item, DelayCreate)

CallUpdate ==
    \E id \in IdArgs, updates \in UpdateArgs : Call("update", id, updates, DelayUpdate)

CallDelete == \E id \in IdArgs : Call("delete", id, NoFields, DelayDelete)

\* ---------------------------------------------------------------- timers

\* A slip: of two timers due at the same time each waits for the other.
MustPrecede_tiesWait(j, i) == calls[j].due <= calls[i].due

\* A slip: timers due at the same time run in any order.
MustPrecede_dueOnly(j, i) == calls[j].due < calls[i].due

\* Timer j runs before timer i when it is due earlier, or due at the same time
\* having been set no later with a delay no longer (the HTML timer rule).
\* Two timers due at the same time otherwise run in either order.
MustPrecede(j, i) ==
    \/ calls[j].due < calls[i].due
    \/ /\ calls[j].due = calls[i].due
       /\ j < i
       /\ calls[j].delay <= calls[i].delay

\* A handler of the page whose awaited call has resolved: its continuation is
\* a microtask, which runs before any other timer callback, before time passes
\* and before any event of the user is handled.
Resumable(k) ==
    /\ page.handlers[k].pc # "done"
    /\ calls[page.handlers[k].awaits].done

Quiet == \A k \in 1..Len(page.handlers) : ~Resumable(k)

Ready(i) ==
    /\ i \in Pending
    /\ calls[i].due <= now
    /\ \A j \in Pending : j # i => ~MustPrecede(j, i)
    /\ Quiet

\* Time passes while a timer is pending and none is due: to the next timer for
\* an awaiting caller, by one unit for a caller that may call in between.
Tick ==
    /\ Pending # {}
    /\ \A i \in Pending : calls[i].due > now
    /\ Quiet
    /\ now' = IF Awaits
              THEN SetMin({calls[i].due : i \in Pending})
              ELSE now + TimeUnit
    /\ UNCHANGED <<arrays, held, calls, nEffects, client, db, page, auth, table>>

\* A slip: the array read before the await, as it was when the call was made.
readItems_atCall(c) == c.atCall

\* The array the body reads when it resumes: the live array.
readItems(c) == items

Done(i, out, ref) ==
    [calls EXCEPT ![i] = [@ EXCEPT !.done = TRUE, !.before = items,
                                   !.after = out.items, !.res = out.res,
                                   !.ref = ref, !.order = nEffects + 1]]

\* A slip: return items, the service's own array.
getAllRef_alias == "items"

\* return [...items]: a new array with the same elements.
getAllRef == "copy"

ResumeGetAll ==
    \E i \in 1..Len(calls) :
        /\ Ready(i) /\ calls[i].op = "getAll"
        /\ LET out == getAll(readItems(calls[i])) IN
            /\ arrays' = [arrays EXCEPT ![getAllRef] = out.res]
            /\ held' = getAllRef
            /\ calls' = Done(i, out, getAllRef)
        /\ nEffects' = nEffects + 1
        /\ UNCHANGED <<now, client, db, page, auth, table>>

ResumeGetById ==
    \E i \in 1..Len(calls) :
        /\ Ready(i) /\ calls[i].op = "getById"
        /\ LET out == getById(readItems(calls[i]), calls[i].id) IN
            /\ calls' = Done(i, out, "none")
        /\ nEffects' = nEffects + 1
        /\ UNCHANGED <<arrays, held, now, client, db, page, auth, table>>

ResumeCreate ==
    \E i \in 1..Len(calls) :
        /\ Ready(i) /\ calls[i].op = "create"
        /\ LET out == create(readItems(calls[i]), calls[i].arg) IN
            /\ arrays' = [arrays EXCEPT !.items = out.items]
            /\ calls' = Done(i, out, "none")
        /\ nEffects' = nEffects + 1
        /\ UNCHANGED <<held, now, client, db, page, auth, table>>

ResumeUpdate ==
    \E i \in 1..Len(calls) :
        /\ Ready(i) /\ calls[i].op = "update"
        /\ LET out == update(readItems(calls[i]), calls[i].id, calls[i].arg) IN
            /\ arrays' = [arrays EXCEPT !.items = out.items]
            /\ calls' = Done(i, out, "none")
        /\ nEffects' = nEffects + 1
        /\ UNCHANGED <<held, now, client, db, page, auth, table>>

ResumeDelete ==
    \E i \in 1..Len(calls) :
        /\ Ready(i) /\ calls[i].op = "delete"
        /\ LET out == delete(readItems(calls[i]), calls[i].id) IN
            /\ arrays' = [arrays EXCEPT !.items = out.items]
            /\ calls' = Done(i, out, "none")
        /\ nEffects' = nEffects + 1
        /\ UNCHANGED <<held, now, client, db, page, auth, table>>

\* ---------------------------------------------------------------- caller

\* analytics.sort((a, b) => date(a) - date(b)): the held array, sorted in place
\* (stable, ascending by date).
RECURSIVE InsertByDate(_, _)
InsertByDate(s, r) ==
    IF s = <<>> THEN <<r>>
    ELSE IF s[Len(s)].date <= r.date THEN Append(s, r)
    ELSE Append(InsertByDate(SubSeq(s, 1, Len(s) - 1), r), s[Len(s)])

RECURSIVE SortByDate(_)
SortByDate(s) ==
    IF s = <<>> THEN <<>>
    ELSE InsertByDate(SortByDate(SubSeq(s, 1, Len(s) - 1)), s[Len(s)])

HasDates(s) == \A i \in 1..Len(s) : "date" \in DOMAIN s[i]

ClientSort ==
    /\ held # "none"
    /\ HasDates(arrays[held])
    /\ arrays[held] # SortByDate(arrays[held])
    /\ arrays' = [arrays EXCEPT ![held] = SortByDate(arrays[held])]
    /\ UNCHANGED <<held, calls, now, nEffects, client, db, page, auth, table>>


\* ---------------------------------------------------------------- all entities
\* The module's arrays and the service made for each.  A record's primary-key
\* field is called "id" whatever its name in the source; foreign-key fields keep
\* their names.

Null == [t |-> "null"]

Tables ==
    [businesses |->
        [i \in 1..3 |-> [id |-> Num(i), name |-> "business", offer_id |-> Num(i)]],
     products |-> [i \in 1..3 |-> [id |-> Num(i), name |-> "product"]],
     customers |-> [i \in 1..3 |-> [id |-> Num(i), name |-> "customer"]],
     offers |-> [i \in 1..3 |-> [id |-> Num(i), O_name |-> "offer", B_ID |-> Num(i)]],
     transactions |->
        [i \in 1..3 |-> [id |-> Num(i), C_ID |-> Num(i), P_ID |-> Num(i)]],
     redemptions |-> [i \in 1..2 |-> [id |-> Num(i), T_ID |-> Num(i)]],
     loyalties |-> [i \in 1..2 |-> [id |-> Num(i), points |-> Num(i)]],
     tierSystems |-> [i \in 1..3 |-> [id |-> Num(i), name |-> "tier"]],
     customerTiers |-> [i \in 1..3 |-> [id |-> Num(i), C_ID |-> Num(i)]],
     referralPrograms |-> [i \in 1..2 |-> [id |-> Num(i), Referred_C_id |-> Num(i)]],
     feedbacks |-> [i \in 1..2 |-> [id |-> Num(i), B_ID |-> Num(i), C_ID |-> Num(i)]],
     promotions |-> [i \in 1..2 |-> [id |-> Num(i), start_date |-> "2023-07-01"]],
     fraudDetections |-> [i \in 1..1 |-> [id |-> Num(i), C_ID |-> Num(3)]],
     analytics |-> [i \in 1..3 |-> [id |-> Num(i), B_ID |-> Num(i)]]]

ArrayNames == DOMAIN Tables

\* The array each service was generated over.
ServiceArray ==
    [businessService |-> "businesses", productService |-> "products",
     customerService |-> "customers", offerService |-> "offers",
     transactionService |-> "transactions", redemptionService |-> "redemptions",
     loyaltyService |-> "loyalties", tierSystemService |-> "tierSystems",
     customerTierService |-> "customerTiers",
     referralProgramService |-> "referralPrograms",
     feedbackService |-> "feedbacks", promotionService |-> "promotions",
     fraudDetectionService |-> "fraudDetections", analyticsService |-> "analytics"]

Services == DOMAIN ServiceArray

\* A slip: promotionService made over the products array, both keyed by P_ID.
arrayOf_sharedPID(svc) ==
    IF svc = "promotionService" THEN "products" ELSE ServiceArray[svc]

arrayOf(svc) == ServiceArray[svc]

NoLists == [loaded |-> "none"]

\* The last awaited operation: none yet.
NoOp == [kind |-> "none"]

DbInit == [tables |-> Tables, lists |-> NoLists, last |-> NoOp, n |-> 0]

\* No page component is mounted.
NoPage ==
    [mounted |-> FALSE, name |-> "none", dialog |-> "closed", current |-> Undefined,
     list |-> <<>>, handlers |-> <<>>, toasts |-> <<>>, leftAt |-> 0]

\* How many awaited operations on the entities are followed.
MaxDbCalls == 2

\* The fields other than the primary key that the seed records of an array hold.
FieldsOf(a) == DOMAIN Tables[a][1] \ {primaryKey}

\* The arguments a caller passes: a record to create whose fields all refer to
\* id 1, and a partial update that points a record's fields at id 9, which no
\* array holds.
TextFields == {"name", "O_name", "start_date"}

NewItem(a) == [f \in FieldsOf(a) |-> IF f \in TextFields THEN "new" ELSE Num(1)]

\* A business may be created without an offer (offer_id: null).
\* A caller may also pass a primary key of its own, here that of a record
\* already present.
NewItems(a) ==
    {NewItem(a), Spread(NewItem(a), [f \in {primaryKey} |-> Num(1)])} \cup
    (IF a = "businesses" THEN {[NewItem(a) EXCEPT !.offer_id = Null]} ELSE {})

Updates(a) == [f \in FieldsOf(a) |-> IF f \in TextFields THEN "upd" ELSE Num(9)]

DbMayCall == client = "db" /\ db.n < MaxDbCalls

\* One awaited call of a service: its body applied to the service's own array.
DbApply(svc, op, id, arg, out) ==
    /\ db' = [db EXCEPT !.tables[arrayOf(svc)] = out.items,
                        !.last = [kind |-> op, svc |-> svc, id |-> id, arg |-> arg,
                                  res |-> out.res, before |-> db.tables],
                        !.n = @ + 1]
    /\ UNCHANGED <<arrays, held, calls, now, nEffects, client, page, auth, table>>

DbCreate ==
    /\ DbMayCall
    /\ \E svc \in Services :
         LET a == arrayOf(svc) IN
         \E item \in NewItems(a) :
             DbApply(svc, "create", Undefined, item, create(db.tables[a], item))

DbUpdate ==
    /\ DbMayCall
    /\ \E svc \in Services :
         LET a == arrayOf(svc) IN
         DbApply(svc, "update", Num(2), Updates(a),
                 update(db.tables[a], Num(2), Updates(a)))

DbDelete ==
    /\ DbMayCall
    /\ \E svc \in Services, id \in {Num(1)} :
         DbApply(svc, "delete", id, NoFields, delete(db.tables[arrayOf(svc)], id))

\* ---------------------------------------------------------------- queries

\* A slip: find used where filter is meant, so that only the first match is
\* returned.
FilterBy_firstOnly(its, field, id) ==
    LET m == {i \in 1..Len(its) : StrictEquals(its[i][field], id)}
    IN IF m = {} THEN <<>> ELSE <<its[SetMin(m)]>>

\* array.filter(r => r[field] === id)
FilterBy(its, field, id) ==
    LET keep(r) == StrictEquals(r[field], id) IN SelectSeq(its, keep)

\* A slip: the last match returned (findLast).
FindBy_last(its, field, id) ==
    LET m == {i \in 1..Len(its) : StrictEquals(its[i][field], id)}
    IN IF m = {} THEN Undefined ELSE its[SetMax(m)]

\* array.find(r => r[field] === id)
FindBy(its, field, id) ==
    LET m == {i \in 1..Len(its) : StrictEquals(its[i][field], id)}
    IN IF m = {} THEN Undefined ELSE its[SetMin(m)]

\* What a query resolves with: an array, or one record or undefined.
AnArray(its) == [kind |-> "array", v |-> its]

ARecord(r) == IF r = Undefined THEN [kind |-> "undefined"] ELSE [kind |-> "record", v |-> r]

getBusinessOffers(t, businessId) == AnArray(FilterBy(t.offers, "B_ID", businessId))

getBusinessFeedback(t, businessId) == AnArray(FilterBy(t.feedbacks, "B_ID", businessId))

getBusinessAnalytics(t, businessId) == AnArray(FilterBy(t.analytics, "B_ID", businessId))

getCustomerTransactions(t, customerId) ==
    AnArray(FilterBy(t.transactions, "C_ID", customerId))

getCustomerTier(t, customerId) == ARecord(FindBy(t.customerTiers, "C_ID", customerId))

getCustomerReferrals(t, customerId) ==
    AnArray(FilterBy(t.referralPrograms, "Referred_C_id", customerId))

getCustomerFeedback(t, customerId) == AnArray(FilterBy(t.feedbacks, "C_ID", customerId))

getCustomerFraudDetections(t, customerId) ==
    AnArray(FilterBy(t.fraudDetections, "C_ID", customerId))

getTransactionRedemptions(t, transactionId) ==
    AnArray(FilterBy(t.redemptions, "T_ID", transactionId))

Queries ==
    {"getBusinessOffers", "getBusinessFeedback", "getBusinessAnalytics",
     "getCustomerTransactions", "getCustomerTier", "getCustomerReferrals",
     "getCustomerFeedback", "getCustomerFraudDetections", "getTransactionRedemptions"}

Query(q, t, id) ==
    CASE q = "getBusinessOffers" -> getBusinessOffers(t, id)
      [] q = "getBusinessFeedback" -> getBusinessFeedback(t, id)
      [] q = "getBusinessAnalytics" -> getBusinessAnalytics(t, id)
      [] q = "getCustomerTransactions" -> getCustomerTransactions(t, id)
      [] q = "getCustomerTier" -> getCustomerTier(t, id)
      [] q = "getCustomerReferrals" -> getCustomerReferrals(t, id)
      [] q = "getCustomerFeedback" -> getCustomerFeedback(t, id)
      [] q = "getCustomerFraudDetections" -> getCustomerFraudDetections(t, id)
      [] q = "getTransactionRedemptions" -> getTransactionRedemptions(t, id)

\* The parent ids asked for: one that records refer to and one that none does.
ParentIds == {Num(1), Num(9)}

\* One awaited relationship query.
DbQuery ==
    /\ DbMayCall
    /\ \E q \in Queries, id \in ParentIds :
         db' = [db EXCEPT !.last = [kind |-> "query", svc |-> q, id |-> id,
                                     arg |-> NoFields, res |-> Query(q, db.tables, id),
                                     before |-> db.tables],
                          !.n = @ + 1]
    /\ UNCHANGED <<arrays, held, calls, now, nEffects, client, page, auth, table>>

\* ---------------------------------------------------------------- page columns

\* A slip: the accessor reads the field of the match without testing it, which
\* throws a TypeError when nothing matched.
Cell_unguarded(match, field) == IF match = Undefined THEN "TypeError" ELSE match[field]

\* const x = list.find(...); return x ? x[field] : '-'
Cell(match, field) == IF match # Undefined THEN match[field] ELSE "-"

\* BusinessPage, column Offer.
OfferCell(lists, business) == Cell(find(lists.offers, business.offer_id), "O_name")

\* TransactionPage, columns Customer and Product.
CustomerCell(lists, transaction) == Cell(find(lists.customers, transaction.C_ID), "name")

ProductCell(lists, transaction) == Cell(find(lists.products, transaction.P_ID), "name")

Pages == {"BusinessPage", "TransactionPage"}

\* The lists a page fetches when it mounts and keeps in its state.
Fetched(pg, t) ==
    IF pg = "BusinessPage"
    THEN [loaded |-> pg, businesses |-> t.businesses, offers |-> t.offers]
    ELSE [loaded |-> pg, transactions |-> t.transactions,
          customers |-> t.customers, products |-> t.products]

\* The cells the page renders from its lists, row by row.
Rendered(lists) ==
    IF lists.loaded = "BusinessPage"
    THEN [i \in 1..Len(lists.businesses) |->
            [Offer |-> OfferCell(lists, lists.businesses[i])]]
    ELSE [i \in 1..Len(lists.transactions) |->
            [Customer |-> CustomerCell(lists, lists.transactions[i]),
             Product |-> ProductCell(lists, lists.transactions[i])]]

\* A page mounts, its fetch resolves and it renders its table.
MountFetch ==
    /\ DbMayCall
    /\ \E pg \in Pages :
         LET ls == Fetched(pg, db.tables) IN
         db' = [db EXCEPT !.lists = [ls EXCEPT !.loaded = pg] @@ [cells |-> Rendered(ls)],
                          !.last = [kind |-> "fetch", svc |-> pg, id |-> Undefined,
                                    arg |-> NoFields, res |-> Undefined,
                                    before |-> db.tables],
                          !.n = @ + 1]
    /\ UNCHANGED <<arrays, held, calls, now, nEffects, client, page, auth, table>>

\* ---------------------------------------------------------------- a page
\* A page component over one service: its list state, its dialog, and its
\* handlers, each an async function suspended at an await of a store call.
\* The dialog is modal and the user leaves it by submitting.

\* How many onSubmit and handleDelete handlers a page starts.
MaxHandlers == 2

\* TransactionPage (as BusinessPage) renders its list as fetched; AnalyticsPage
\* sorts its list state in place on every render.
PageNames == {"TransactionPage", "AnalyticsPage"}

render(name, list) == IF name = "AnalyticsPage" THEN SortByDate(list) ELSE list

\* The rows the user acts on, and what the form is submitted with.
RowIds == {Num(1)}

FormData == [name |-> "new", date |-> 0]

Started == {k \in 1..Len(page.handlers) : page.handlers[k].kind # "fetch"}

Handler(kind, id) ==
    [kind |-> kind, id |-> id, pc |-> "mutation", awaits |-> Len(calls) + 1,
     mut |-> Len(calls) + 1, toast |-> "none", closed |-> FALSE]

\* useEffect(() => { fetchData() }, []): the list is fetched on mount.
Mounted(name) ==
    [mounted |-> TRUE, name |-> name, dialog |-> "closed", current |-> Undefined,
     list |-> <<>>, toasts |-> <<>>, leftAt |-> 0,
     handlers |-> <<[kind |-> "fetch", id |-> Undefined, pc |-> "reread",
                     awaits |-> 1, mut |-> 0, toast |-> "none", closed |-> FALSE]>>]

UserMayAct == client = "page" /\ page.mounted /\ Quiet

InList(id) == \E i \in 1..Len(page.list) : page.list[i].id = id

\* The Add button: setCurrentTransaction(null) and the dialog opens.
OpenAdd ==
    /\ UserMayAct /\ page.dialog = "closed"
    /\ page' = [page EXCEPT !.dialog = "open", !.current = Undefined]
    /\ UNCHANGED <<arrays, held, calls, now, nEffects, client, db, auth, table>>

\* The pencil button of a row: setCurrentTransaction(row); setIsDialogOpen(true)
OpenEdit ==
    /\ UserMayAct /\ page.dialog = "closed"
    /\ \E id \in RowIds :
         /\ InList(id)
         /\ page' = [page EXCEPT !.dialog = "open", !.current = id]
    /\ UNCHANGED <<arrays, held, calls, now, nEffects, client, db, auth, table>>

\* onSubmit up to its first await: update(current id, data) or create(data).
onSubmit ==
    /\ UserMayAct /\ page.dialog = "open"
    /\ Cardinality(Started) < MaxHandlers
    /\ calls' = Append(calls,
                  IF page.current # Undefined
                  THEN NewCall("update", page.current, FormData, DelayUpdate)
                  ELSE NewCall("create", Undefined, FormData, DelayCreate))
    /\ page' = [page EXCEPT !.handlers = Append(@, Handler("submit", page.current))]
    /\ UNCHANGED <<arrays, held, now, nEffects, client, db, auth, table>>

\* handleDelete(row), confirmed, up to its first await: delete(row id).
handleDelete ==
    /\ UserMayAct /\ page.dialog = "closed"
    /\ Cardinality(Started) < MaxHandlers
    /\ \E id \in RowIds :
         /\ InList(id)
         /\ calls' = Append(calls, NewCall("delete", id, NoFields, DelayDelete))
         /\ page' = [page EXCEPT !.handlers = Append(@, Handler("delete", id))]
    /\ UNCHANGED <<arrays, held, now, nEffects, client, db, auth, table>>

\* A slip: the cleanup of the component settles what it awaits without running
\* it.
Unmount_cancelling ==
    /\ UserMayAct
    /\ page' = [page EXCEPT !.mounted = FALSE, !.leftAt = nEffects]
    /\ calls' = [i \in 1..Len(calls) |-> [calls[i] EXCEPT !.done = TRUE]]
    /\ UNCHANGED <<arrays, held, now, nEffects, client, db, auth, table>>

\* A slip: a resolved absence (undefined, false) taken for a failure.
Throws_onAbsence(res) == res = Undefined \/ res = Bool(FALSE)

\* The awaited store call rejects: never, the bodies have no throwing path.
Throws(res) == FALSE

Toast(k, variant) == [handler |-> k, variant |-> variant]

\* A handler resumes after its mutation: onSubmit notifies success, then both
\* handlers call getAll; the catch block notifies the failure instead.
AfterMutation(k) ==
    LET h == page.handlers[k] IN
    IF Throws(calls[h.awaits].res)
    THEN /\ page' = [page EXCEPT !.handlers[k].pc = "done",
                                 !.handlers[k].toast = "destructive",
                                 !.toasts = Append(@, Toast(k, "destructive"))]
         /\ UNCHANGED calls
    ELSE /\ calls' = Append(calls, NewCall("getAll", Undefined, NoFields, DelayGetAll))
         /\ page' = IF h.kind = "submit"
                    THEN [page EXCEPT !.handlers[k].pc = "reread",
                                      !.handlers[k].awaits = Len(calls) + 1,
                                      !.handlers[k].toast = "success",
                                      !.toasts = Append(@, Toast(k, "success"))]
                    ELSE [page EXCEPT !.handlers[k].pc = "reread",
                                      !.handlers[k].awaits = Len(calls) + 1]

\* A handler resumes after its getAll: the list state is set (nothing is set on
\* an unmounted component) and rendered; onSubmit closes the dialog,
\* handleDelete notifies success.
AfterGetAll(k) ==
    LET h == page.handlers[k]
        fetched == calls[h.awaits].res
        shown == IF page.mounted THEN render(page.name, fetched) ELSE page.list
    IN /\ page' = CASE h.kind = "submit" ->
                         [page EXCEPT !.handlers[k].pc = "done", !.list = shown,
                                      !.dialog = "closed", !.handlers[k].closed = TRUE]
                    [] h.kind = "delete" ->
                         [page EXCEPT !.handlers[k].pc = "done", !.list = shown,
                                      !.handlers[k].toast = "success",
                                      !.toasts = Append(@, Toast(k, "success"))]
                    [] h.kind = "fetch" ->
                         [page EXCEPT !.handlers[k].pc = "done", !.list = shown]
       /\ UNCHANGED calls

Continue ==
    /\ client = "page"
    /\ \E k \in 1..Len(page.handlers) :
         /\ Resumable(k)
         /\ IF page.handlers[k].pc = "mutation" THEN AfterMutation(k) ELSE AfterGetAll(k)
    /\ UNCHANGED <<arrays, held, now, nEffects, client, db, auth, table>>

\* The user navigates to another route: the component unmounts; nothing is
\* cancelled.
Unmount ==
    /\ UserMayAct
    /\ page' = [page EXCEPT !.mounted = FALSE, !.leftAt = nEffects]
    /\ UNCHANGED <<arrays, held, calls, now, nEffects, client, db, auth, table>>

\* ---------------------------------------------------------------- session

\* The AuthProvider of src/src/contexts/AuthContext.tsx: the admin and
\* isLoading state, the localStorage entry 'admin', and the logins and logouts
\* called, each login suspended at its await of a 500 ms timer.

\* No AuthProvider is rendered.
NoAuth == [mounted |-> FALSE]

\* How many logins and logouts are followed.
MaxAuthCalls == 3

DelayLogin == 500

MOCK_ADMINS ==
    <<[A_ID |-> 1, username |-> "admin", password |-> "admin123",
       email |-> "admin@example.com", role |-> "superadmin"],
      [A_ID |-> 2, username |-> "manager", password |-> "manager123",
       email |-> "manager@example.com", role |-> "manager"]>>

\* What the login form is submitted with: the credentials of each admin, and
\* the username of one with the password of the other.
Credentials ==
    {<<"admin", "admin123">>, <<"manager", "manager123">>,
     <<"admin", "manager123">>}

\* Time is followed in halves of the login delay: a call falls at the start
\* or in the middle of another login's wait, or after it.
AuthTimeUnit == DelayLogin \div 2

\* A slip: the username of one entry and the password of any entry accepted.
findAdmin_anyPassword(username, password) ==
    LET m == {i \in 1..Len(MOCK_ADMINS) :
                /\ MOCK_ADMINS[i].username = username
                /\ \E j \in 1..Len(MOCK_ADMINS) : MOCK_ADMINS[j].password = password}
    IN IF m = {} THEN Undefined ELSE MOCK_ADMINS[SetMin(m)]

\* MOCK_ADMINS.find(a => a.username === username && a.password === password)
findAdmin(username, password) ==
    LET m == {i \in 1..Len(MOCK_ADMINS) :
                MOCK_ADMINS[i].username = username /\ MOCK_ADMINS[i].password = password}
    IN IF m = {} THEN Undefined ELSE MOCK_ADMINS[SetMin(m)]

\* A slip: the found entry kept whole.
withoutPassword_whole(foundAdmin) == foundAdmin

\* const { password: _, ...adminWithoutPassword } = foundAdmin
withoutPassword(foundAdmin) ==
    [f \in DOMAIN foundAdmin \ {"password"} |-> foundAdmin[f]]

\* localStorage holds strings: JSON.stringify writes the text of a value and
\* JSON.parse reads it back or throws on a text that is no JSON.
Absent == [t |-> "absent"]

Garbage == [t |-> "text", json |-> FALSE]

stringify(value) == [t |-> "text", json |-> TRUE, of |-> value]

Parses(text) == text.json

parse(text) == text.of

\* What localStorage may hold under 'admin' when the application starts:
\* nothing, the session a login wrote, or a text that does not parse.
\* The fields of the Admin type.
AdminFields == {"A_ID", "username", "email", "role"}

StoredAtStart ==
    {Absent, stringify([f \in AdminFields |-> MOCK_ADMINS[1][f]]), Garbage}

Rendered_Auth(storage) ==
    [mounted |-> TRUE, effectRan |-> FALSE, admin |-> Null, isLoading |-> TRUE,
     storage |-> storage, log |-> <<>>]

isAuthenticated == auth.admin # Null

AuthMayCall == client = "auth" /\ auth.mounted /\ auth.effectRan /\ Len(auth.log) < MaxAuthCalls

PendingLogins == {i \in 1..Len(auth.log) : auth.log[i].op = "login" /\ ~auth.log[i].done}

\* useEffect(() => {...}, []): the stored session is restored; a text that
\* does not parse is removed.
mountEffect ==
    /\ client = "auth" /\ auth.mounted /\ ~auth.effectRan
    /\ auth' = [auth EXCEPT
                  !.effectRan = TRUE,
                  !.isLoading = FALSE,
                  !.admin = IF auth.storage # Absent /\ Parses(auth.storage)
                            THEN parse(auth.storage) ELSE @,
                  !.storage = IF auth.storage # Absent /\ ~Parses(auth.storage)
                              THEN Absent ELSE @]
    /\ UNCHANGED <<arrays, held, calls, now, nEffects, client, db, page, table>>

\* login up to its await: setIsLoading(true) and the timer is set.
login ==
    /\ AuthMayCall
    /\ \E c \in Credentials :
         auth' = [auth EXCEPT
                    !.isLoading = TRUE,
                    !.log = Append(@, [op |-> "login", username |-> c[1],
                                       password |-> c[2], tCall |-> now,
                                       due |-> now + DelayLogin, done |-> FALSE,
                                       res |-> FALSE, loading |-> TRUE,
                                       pending |-> PendingLogins,
                                       before |-> [admin |-> Null, storage |-> Absent],
                                       after |-> [admin |-> Null, storage |-> Absent]])]
    /\ UNCHANGED <<arrays, held, calls, now, nEffects, client, db, page, table>>

Logged(op) ==
    [op |-> op, username |-> "", password |-> "", tCall |-> now, due |-> now,
     done |-> TRUE, res |-> FALSE, loading |-> auth.isLoading,
     pending |-> PendingLogins,
     before |-> [admin |-> auth.admin, storage |-> auth.storage],
     after |-> [admin |-> auth.admin, storage |-> auth.storage]]

\* A slip: logout clears the state and leaves the stored session.
logout_keepsStorage ==
    /\ AuthMayCall
    /\ auth' = [auth EXCEPT !.admin = Null,
                            !.log = Append(@, [Logged("logout") EXCEPT
                                                 !.after.admin = Null])]
    /\ UNCHANGED <<arrays, held, calls, now, nEffects, client, db, page, table>>

\* A slip: logout also gives up the logins that are pending.
logout_cancelling ==
    /\ AuthMayCall
    /\ auth' = [auth EXCEPT
                  !.admin = Null, !.storage = Absent,
                  !.log = Append([i \in 1..Len(auth.log) |->
                                    [auth.log[i] EXCEPT !.done = TRUE]],
                                 [Logged("logout") EXCEPT
                                    !.after = [admin |-> Null, storage |-> Absent]])]
    /\ UNCHANGED <<arrays, held, calls, now, nEffects, client, db, page, table>>

\* logout: setAdmin(null); localStorage.removeItem('admin')
logout ==
    /\ AuthMayCall
    /\ auth' = [auth EXCEPT !.admin = Null, !.storage = Absent,
                            !.log = Append(@, [Logged("logout") EXCEPT
                                                 !.after = [admin |-> Null,
                                                            storage |-> Absent]])]
    /\ UNCHANGED <<arrays, held, calls, now, nEffects, client, db, page, table>>

\* Time passes while a login waits and none is due.
AuthTick ==
    /\ client = "auth"
    /\ PendingLogins # {}
    /\ \A i \in PendingLogins : auth.log[i].due > now
    /\ now' = now + AuthTimeUnit
    /\ UNCHANGED <<arrays, held, calls, nEffects, client, db, page, auth, table>>

\* login after its await, the timer that was set first running first: the
\* admin found is stored without its password and login resolves true;
\* otherwise it resolves false; finally setIsLoading(false).
loginResumes ==
    /\ client = "auth"
    /\ \E i \in PendingLogins :
         /\ auth.log[i].due <= now
         /\ \A j \in PendingLogins : j >= i \/ auth.log[j].due > auth.log[i].due
         /\ LET foundAdmin == findAdmin(auth.log[i].username, auth.log[i].password)
                admin == IF foundAdmin # Undefined
                         THEN withoutPassword(foundAdmin) ELSE auth.admin
                storage == IF foundAdmin # Undefined
                           THEN stringify(withoutPassword(foundAdmin)) ELSE auth.storage
                isLoading == FALSE
            IN auth' = [auth EXCEPT
                          !.admin = admin, !.storage = storage, !.isLoading = isLoading,
                          !.log[i] = [@ EXCEPT
                                        !.done = TRUE,
                                        !.res = foundAdmin # Undefined,
                                        !.loading = isLoading,
                                        !.before = [admin |-> auth.admin,
                                                    storage |-> auth.storage],
                                        !.after = [admin |-> admin,
                                                   storage |-> storage]]]
    /\ UNCHANGED <<arrays, held, calls, now, nEffects, client, db, page, table>>

\* ---------------------------------------------------------------- table

\* The DataTable of src/unnamed/part_008: its data prop, its searchTerm and
\* page state, and the operations made on it.

\* No DataTable is rendered.
NoTable == [mounted |-> FALSE]

\* How many operations on a table are followed.
MaxTableOps == 4

itemsPerPage == 10

\* Text is a sequence of characters.
Digit == <<"0", "1", "2", "3", "4", "5", "6", "7", "8", "9">>

RECURSIVE String(_)
\* String(value) of a non-negative integer: its decimal digits.
String(n) ==
    IF n < 10 THEN <<Digit[n + 1]>> ELSE String(n \div 10) \o <<Digit[(n % 10) + 1]>>

toLowerCase(text) ==
    [i \in 1..Len(text) |->
       CASE text[i] = "A" -> "a"
         [] text[i] = "B" -> "b"
         [] text[i] = "N" -> "n"
         [] OTHER -> text[i]]

\* text.includes(term)
includes(text, term) ==
    \E i \in 0..(Len(text) - Len(term)) : SubSeq(text, i + 1, i + Len(term)) = term

\* The rows a page hands to its table: a numeric key and a name.
Row(id) ==
    [id |-> id, name |-> IF id % 2 = 1 THEN <<"A", "n", "n">> ELSE <<"B", "o", "b">>]

RowsUpTo(n) == [i \in 1..n |-> Row(i)]

\* How many records the page has fetched when the table is first followed:
\* none, one more than a page, one more than two pages.
StartRows == {0, itemsPerPage + 1, 2 * itemsPerPage + 1}

\* What the search field is set to: nothing, part of a name in capitals, a
\* digit, a letter no row has.
SearchTerms == {<<>>, <<"A", "N">>, <<"2">>, <<"z">>}

\* Object.values(item).some(value => String(value).toLowerCase().includes(
\* searchTerm.toLowerCase())); no value of a row is null or undefined.
matches(item, searchTerm) ==
    \/ includes(toLowerCase(String(item.id)), toLowerCase(searchTerm))
    \/ includes(toLowerCase(item.name), toLowerCase(searchTerm))

filteredData(data, searchTerm) ==
    LET keep(item) == matches(item, searchTerm)
    IN IF searchTerm # <<>> THEN SelectSeq(data, keep) ELSE data

\* Math.ceil(filteredData.length / itemsPerPage)
totalPages(data, searchTerm) ==
    (Len(filteredData(data, searchTerm)) + itemsPerPage - 1) \div itemsPerPage

startIndex(page_) == (page_ - 1) * itemsPerPage

\* filteredData.slice(startIndex, startIndex + itemsPerPage)
paginatedData(data, searchTerm, page_) ==
    LET f == filteredData(data, searchTerm)
        from == startIndex(page_) + 1
        to == IF startIndex(page_) + itemsPerPage < Len(f)
              THEN startIndex(page_) + itemsPerPage ELSE Len(f)
    IN IF from > to THEN <<>> ELSE SubSeq(f, from, to)

\* Math.max(1, Math.min(newPage, totalPages))
goToPage(newPage, total) ==
    LET least == IF newPage < total THEN newPage ELSE total
    IN IF least > 1 THEN least ELSE 1

Rendered_Table(n) ==
    [mounted |-> TRUE, data |-> RowsUpTo(n), searchTerm |-> <<>>, page |-> 1,
     ops |-> <<>>]

TableMayAct == client = "table" /\ table.mounted /\ Len(table.ops) < MaxTableOps

\* The search field changes: setSearchTerm(value); setPage(1).
search ==
    /\ TableMayAct
    /\ \E value \in SearchTerms :
         /\ value # table.searchTerm
         /\ table' = [table EXCEPT !.searchTerm = value, !.page = 1,
                                   !.ops = Append(@, "search")]
    /\ UNCHANGED <<arrays, held, calls, now, nEffects, client, db, page, auth>>

\* One of the four pagination buttons, rendered when totalPages > 1 and
\* enabled as its disabled attribute says, is clicked.
clickPage ==
    /\ TableMayAct
    /\ LET total == totalPages(table.data, table.searchTerm)
           buttons == (IF table.page = 1 THEN {} ELSE {1, table.page - 1})
                      \cup (IF table.page = total THEN {} ELSE {table.page + 1, total})
       IN /\ total > 1
          /\ \E newPage \in buttons :
               table' = [table EXCEPT !.page = goToPage(newPage, total),
                                      !.ops = Append(@, "goToPage")]
    /\ UNCHANGED <<arrays, held, calls, now, nEffects, client, db, page, auth>>

\* The page has created a record and re-read its list: the data prop holds
\* one row more, at the end, keyed after the largest key, that of the last
\* row.
recordCreated ==
    /\ TableMayAct
    /\ LET newId == IF table.data = <<>> THEN 1
                    ELSE table.data[Len(table.data)].id + 1
       IN table' = [table EXCEPT !.data = Append(@, Row(newId)),
                                 !.ops = Append(@, "created")]
    /\ UNCHANGED <<arrays, held, calls, now, nEffects, client, db, page, auth>>

\* The page has deleted its first or its last record and re-read its list:
\* the data prop holds one row less.
recordDeleted ==
    /\ TableMayAct
    /\ table.data # <<>>
    /\ \E id \in {table.data[1].id, table.data[Len(table.data)].id} :
         LET keep(item) == item.id # id
         IN table' = [table EXCEPT !.data = SelectSeq(@, keep),
                                   !.ops = Append(@, "deleted")]
    /\ UNCHANGED <<arrays, held, calls, now, nEffects, client, db, page, auth>>

\* ---------------------------------------------------------------- machine

InitStore(lengths) ==
    /\ \E n \in lengths : arrays = [items |-> SeedItems(n), copy |-> <<>>]
    /\ held = "none"
    /\ calls = <<>>
    /\ now = 0
    /\ nEffects = 0

Init ==
    /\ InitStore(SeedLengths) /\ client = "awaiting"
    /\ db = DbInit /\ page = NoPage /\ auth = NoAuth /\ table = NoTable

\* Calls made without awaiting are followed on the shortest seed.
InitConc ==
    /\ InitStore({SetMin(SeedLengths)}) /\ client = "concurrent"
    /\ db = DbInit /\ page = NoPage /\ auth = NoAuth /\ table = NoTable

Next ==
    \/ CallGetAll
    \/ CallGetById
    \/ CallCreate
    \/ CallUpdate
    \/ CallDelete
    \/ Tick
    \/ ResumeGetAll
    \/ ResumeGetById
    \/ ResumeCreate
    \/ ResumeUpdate
    \/ ResumeDelete
    \/ ClientSort

Spec == Init /\ [][Next]_vars

SpecConc == InitConc /\ [][Next]_vars

\* The AuthProvider is rendered over whatever localStorage holds.
InitAuth ==
    /\ InitStore({SetMin(SeedLengths)}) /\ client = "auth"
    /\ db = DbInit /\ page = NoPage /\ table = NoTable
    /\ \E storage \in StoredAtStart : auth = Rendered_Auth(storage)

NextAuth ==
    \/ mountEffect
    \/ login
    \/ logout
    \/ AuthTick
    \/ loginResumes

SpecAuth == InitAuth /\ [][NextAuth]_vars

\* A DataTable is rendered over the records its page has fetched.
InitTable ==
    /\ InitStore({SetMin(SeedLengths)}) /\ client = "table"
    /\ db = DbInit /\ page = NoPage /\ auth = NoAuth
    /\ \E n \in StartRows : table = Rendered_Table(n)

NextTable ==
    \/ search
    \/ clickPage
    \/ recordCreated
    \/ recordDeleted

SpecTable == InitTable /\ [][NextTable]_vars

\* Awaited calls on the longest seed that delete its last records; the updates
\* leave the primary key alone.
InitIds ==
    /\ InitStore({SetMax(SeedLengths)}) /\ client = "ids"
    /\ db = DbInit /\ page = NoPage /\ auth = NoAuth /\ table = NoTable

SpecIds == InitIds /\ [][Next]_vars

\* The event loop lets time pass and runs every timer callback that is due.
Resume == ResumeGetAll \/ ResumeGetById \/ ResumeCreate \/ ResumeUpdate \/ ResumeDelete

\* Tick always changes now and a callback always adds one to nEffects.
Fairness == WF_now(Tick) /\ WF_nEffects(Resume)

\* Calls made without awaiting, all of them within the first time unit, so
\* that each is made while the earlier ones are pending.
InitLive ==
    /\ InitStore({SetMin(SeedLengths)}) /\ client = "burst"
    /\ db = DbInit /\ page = NoPage /\ auth = NoAuth /\ table = NoTable

SpecLive == InitLive /\ [][Next]_vars /\ Fairness

\* A page is mounted and its fetch has been called.
InitPage ==
    /\ arrays = [items |-> SeedItems(SetMax(SeedLengths)), copy |-> <<>>]
    /\ held = "none"
    /\ now = 0
    /\ nEffects = 0
    /\ client = "page"
    /\ db = DbInit /\ auth = NoAuth /\ table = NoTable
    /\ calls = <<[NewCall("getAll", Undefined, NoFields, DelayGetAll) EXCEPT
                    !.atCall = SeedItems(SetMax(SeedLengths))]>>
    /\ \E name \in PageNames : page = Mounted(name)

NextPage ==
    \/ OpenAdd
    \/ OpenEdit
    \/ onSubmit
    \/ handleDelete
    \/ Continue
    \/ Unmount
    \/ Tick
    \/ ResumeGetAll
    \/ ResumeCreate
    \/ ResumeUpdate
    \/ ResumeDelete

SpecPage == InitPage /\ [][NextPage]_vars

\* All entities, each operation awaited before the next is called.
InitDb ==
    /\ InitStore({SetMin(SeedLengths)}) /\ client = "db"
    /\ db = DbInit /\ page = NoPage /\ auth = NoAuth /\ table = NoTable

NextDb ==
    \/ DbCreate
    \/ DbUpdate
    \/ DbDelete
    \/ DbQuery
    \/ MountFetch

SpecDb == InitDb /\ [][NextDb]_vars

\* ---------------------------------------------------------------- claims

DoneCalls(op) == {i \in 1..Len(calls) : calls[i].done /\ calls[i].op = op}

\* The positions of `its` whose key is the value `id`, type included.
Matches(its, id) == {k \in 1..Len(its) : its[k].id = id}

KeyNumbers(its) == {its[k].id.n : k \in 1..Len(its)}

AllNumeric(its) == \A k \in 1..Len(its) : its[k].id.t = "number"

\* `its` without its element at position k.
Without(its, k) == SubSeq(its, 1, k - 1) \o SubSeq(its, k + 1, Len(its))

\* C1: create gives the new record the id 1 when the sequence is empty at the
\* moment its body runs, and otherwise the largest id in the sequence plus one
\* (sequences with numeric keys).
C1_CreateAssignsNextId ==
    \A i \in DoneCalls("create") :
        LET c == calls[i] IN
        AllNumeric(c.before) =>
            /\ c.before = <<>> => c.res.id = Num(1)
            /\ c.before # <<>> =>
                 /\ c.res.id.t = "number"
                 /\ \E m \in KeyNumbers(c.before) :
                       /\ \A x \in KeyNumbers(c.before) : x <= m
                       /\ c.res.id.n = m + 1

\* A create on an empty sequence (id 1) and a create on a non-empty one (id 2)
\* have both run.
C1_Witness ==
    /\ \E i \in DoneCalls("create") :
          calls[i].before = <<>> /\ calls[i].res.id = Num(1)
    /\ \E i \in DoneCalls("create") :
          calls[i].before # <<>> /\ calls[i].res.id = Num(2)

\* C2: update of an id that is present returns the old record with the partial
\* fields laid over it and every other field as it was; the stored record at
\* that position is the returned record; length, position and every other
\* record are unchanged.
C2_UpdateMerges ==
    \A i \in DoneCalls("update") :
        LET c == calls[i] IN
        Matches(c.before, c.id) # {} =>
            LET k == SetMin(Matches(c.before, c.id))
                old == c.before[k]
            IN /\ DOMAIN c.res = DOMAIN old \cup DOMAIN c.arg
               /\ \A f \in DOMAIN c.arg : c.res[f] = c.arg[f]
               /\ \A f \in DOMAIN old \ DOMAIN c.arg : c.res[f] = old[f]
               /\ Len(c.after) = Len(c.before)
               /\ c.after[k] = c.res
               /\ \A j \in 1..Len(c.before) : j # k => c.after[j] = c.before[j]
               /\ c.order = nEffects => items = c.after

\* An update of a present record that changed one field and kept another.
C2_Witness ==
    \E i \in DoneCalls("update") :
        LET c == calls[i] IN
        /\ Matches(c.before, c.id) # {}
        /\ Len(c.before) > 1
        /\ \E f \in DOMAIN c.arg : c.res[f] # c.before[SetMin(Matches(c.before, c.id))][f]
        /\ DOMAIN c.res # DOMAIN c.arg

\* C3: delete of an id that exists removes the first matching record, shortens
\* the sequence by exactly one and returns true; delete of an id that does not
\* exist leaves the sequence as it was and returns false.
C3_DeleteRemovesOne ==
    \A i \in DoneCalls("delete") :
        LET c == calls[i] IN
        IF Matches(c.before, c.id) # {}
        THEN /\ c.res = Bool(TRUE)
             /\ Len(c.after) = Len(c.before) - 1
             /\ c.after = Without(c.before, SetMin(Matches(c.before, c.id)))
        ELSE /\ c.res = Bool(FALSE)
             /\ c.after = c.before

\* C4: getById, update and delete with an id that matches no record resolve to
\* undefined, undefined and false, and leave the sequence exactly as it was.
C4_NotFoundIsAbsence ==
    \A i \in 1..Len(calls) :
        LET c == calls[i] IN
        (c.done /\ c.op \in {"getById", "update", "delete"}
                /\ Matches(c.before, c.id) = {}) =>
            /\ c.after = c.before
            /\ c.res = IF c.op = "delete" THEN Bool(FALSE) ELSE Undefined

\* A getById, an update and a delete have each run with an id matching nothing.
C4_Witness ==
    \A op \in {"getById", "update", "delete"} :
        \E i \in DoneCalls(op) : Matches(calls[i].before, calls[i].id) = {}

\* C5: no two records of the sequence have the same primary key.
C5_UniqueKeys ==
    \A j, k \in 1..Len(items) : j # k => items[j].id # items[k].id

\* C6: create, then delete of the id create returned, then list: the delete
\* leaves, and the list returns, exactly the sequence as it was before the
\* create, same order and same values.
C6_CreateDeleteRoundTrip ==
    \A i \in 1..Len(calls) :
        (/\ i + 1 <= Len(calls)
         /\ calls[i].op = "create" /\ calls[i].done
         /\ calls[i + 1].op = "delete" /\ calls[i + 1].done
         /\ calls[i + 1].id = calls[i].res.id) =>
            /\ calls[i + 1].after = calls[i].before
            /\ (/\ i + 2 <= Len(calls)
                /\ calls[i + 2].op = "getAll" /\ calls[i + 2].done) =>
                   calls[i + 2].res = calls[i].before

\* The round trip has run on the seed of three records, list included.
C6_Witness ==
    /\ Len(calls) = 3
    /\ calls[1].op = "create" /\ calls[2].op = "delete" /\ calls[3].op = "getAll"
    /\ calls[3].done
    /\ calls[2].id = calls[1].res.id
    /\ calls[2].res = Bool(TRUE)
    /\ Len(calls[1].before) = 3

\* C10: getById returns the first record in sequence order whose key has the
\* type and the value of id (the string "1" does not match the number 1),
\* undefined when there is none, and leaves the sequence as it was.
C10_GetByIdStrictFirst ==
    \A i \in DoneCalls("getById") :
        LET c == calls[i] IN
        /\ c.after = c.before
        /\ IF \E k \in 1..Len(c.before) :
                  c.before[k].id.t = c.id.t /\ c.before[k].id.n = c.id.n
           THEN \E k \in 1..Len(c.before) :
                  /\ c.before[k].id.t = c.id.t /\ c.before[k].id.n = c.id.n
                  /\ \A j \in 1..(k - 1) : c.before[j].id # c.id
                  /\ c.res = c.before[k]
           ELSE c.res = Undefined

\* getById("1") has found nothing although a record has the number 1 as key,
\* and a getById has returned the first of two records with its key.
C10_Witness ==
    /\ \E i \in DoneCalls("getById") :
          /\ calls[i].id = Str(1)
          /\ \E k \in 1..Len(calls[i].before) : calls[i].before[k].id = Num(1)
          /\ calls[i].res = Undefined
    /\ \E i \in DoneCalls("getById") :
          /\ Cardinality(Matches(calls[i].before, calls[i].id)) > 1
          /\ calls[i].res # calls[i].before[SetMax(Matches(calls[i].before, calls[i].id))]

\* ---------------------------------------------------------------- calls made without awaiting

AllDone == Pending = {}

\* The sequence before the first call: nothing changes it until a body runs.
Seed == calls[1].atCall

ApplyOp(c, its) ==
    CASE c.op = "getAll" -> getAll(its)
      [] c.op = "getById" -> getById(its, c.id)
      [] c.op = "create" -> create(its, c.arg)
      [] c.op = "update" -> update(its, c.id, c.arg)
      [] c.op = "delete" -> delete(its, c.id)

\* The sequence left by the calls cs applied one after another to its.
RECURSIVE OneAfterAnother(_, _)
OneAfterAnother(its, cs) ==
    IF cs = <<>> THEN its
    ELSE OneAfterAnother(ApplyOp(Head(cs), its).items, Tail(cs))

\* Every call returned what it returns, and the sequence is what it is, when
\* the calls are applied one after another in the order they were made.
AsIfInCallOrder ==
    /\ items = OneAfterAnother(Seed, calls)
    /\ \A k \in 1..Len(calls) :
          calls[k].res =
              ApplyOp(calls[k], OneAfterAnother(Seed, SubSeq(calls, 1, k - 1))).res

\* No call was made with a delay shorter than that of a call made before it.
DelaysNeverDecrease ==
    \A j, k \in 1..Len(calls) : j < k => calls[j].delay <= calls[k].delay

\* Calls j and k were pending at the same time.
Overlap(j, k) == calls[j].tCall < calls[k].due /\ calls[k].tCall < calls[j].due

\* C7: every body reads and writes the sequence as it is when the body runs,
\* whatever was pending meanwhile, and create calls pending at the same time
\* lose no update: each of them is a record of the sequence, one record per
\* call, and their ids are pairwise distinct.
C7_ConcurrentCreatesKept ==
    /\ \A i \in 1..Len(calls) :
          calls[i].done =>
              /\ calls[i].after = ApplyOp(calls[i], calls[i].before).items
              /\ calls[i].res = ApplyOp(calls[i], calls[i].before).res
    /\ (\A i \in 1..Len(calls) : calls[i].op = "create") =>
        /\ \A i \in DoneCalls("create") :
              \E k \in 1..Len(items) : items[k] = calls[i].res
        /\ \A i, j \in DoneCalls("create") :
              i # j => calls[i].res.id # calls[j].res.id
        /\ Len(calls) > 0 =>
              Len(items) = Len(Seed) + Cardinality(DoneCalls("create"))

\* Three creates, all pending at the same time, have all run.
C7_Witness ==
    /\ Len(calls) = 3
    /\ \A i \in 1..3 : calls[i].op = "create" /\ calls[i].done
    /\ \A i, j \in 1..3 : i # j => Overlap(i, j)
    /\ calls[1].tCall < calls[3].tCall

\* C8 as stated: whatever calls are made without awaiting, what they return
\* and the final sequence are as if they had been applied one after another in
\* the order they were made.
C8_DelaysHaveNoConsequence ==
    (Len(calls) > 0 /\ AllDone) => AsIfInCallOrder

\* C8 as amended: the same, for calls none of which has a shorter delay than a
\* call made before it.
C8_CallOrderWhenDelaysNeverDecrease ==
    (Len(calls) > 0 /\ AllDone /\ DelaysNeverDecrease) => AsIfInCallOrder

\* Three calls of three different delays, all pending at the same time, the
\* first two made at the same moment, have all run.
C8_Witness ==
    /\ Len(calls) = 3 /\ AllDone /\ DelaysNeverDecrease
    /\ \A i, j \in 1..3 : i # j => Overlap(i, j)
    /\ calls[1].delay < calls[2].delay /\ calls[2].delay = calls[3].delay
    /\ calls[2].tCall = calls[3].tCall
    /\ calls[2].op = "create" /\ calls[3].op = "update"
    /\ items # Seed

\* A body that changes the sequence runs in this step.
StoreChanges == arrays'.items # arrays.items

\* C9: list resolves to a new array holding the sequence as it is when the
\* delay elapses, in order; changing the returned array does not change the
\* sequence, and a later change of the sequence does not change the returned
\* array.
C9_ListIsACopy ==
    /\ [](\A i \in DoneCalls("getAll") :
            /\ calls[i].res = calls[i].before
            /\ calls[i].ref # "items"
            /\ calls[i].after = calls[i].before)
    /\ [][/\ ClientSort => arrays'.items = arrays.items
          /\ (StoreChanges /\ held # "none") => arrays'[held] = arrays[held]]_vars

\* A list called before a create ran has returned the sequence with the new
\* record, the caller has sorted the returned array, and the sequence has
\* changed again after that.
C9_Witness ==
    \E i \in DoneCalls("getAll") :
        /\ calls[i].atCall # calls[i].before
        /\ arrays.copy # calls[i].res
        /\ held = "copy"
        /\ items # calls[i].before
        /\ Len(arrays.copy) = Len(calls[i].res)


\* ---------------------------------------------------------------- C14, C17, C18

\* Calls i < j with no create and no update made between them.
NoWriteBetween(i, j) ==
    \A k \in (i+1)..(j-1) : calls[k].op \notin {"create", "update"}

\* The pairs of completed deletes of one id, the first of which returned true,
\* with no create or update in between.
RepeatedDeletes ==
    {p \in DoneCalls("delete") \X DoneCalls("delete") :
        /\ p[1] < p[2]
        /\ calls[p[1]].id = calls[p[2]].id
        /\ calls[p[1]].res = Bool(TRUE)
        /\ NoWriteBetween(p[1], p[2])}

\* C14: once delete(id) has returned true, a second delete(id) with no create
\* or update in between returns false and leaves the sequence exactly as the
\* first delete left it.
C14_DeleteIdempotent ==
    \A p \in RepeatedDeletes :
        /\ calls[p[2]].res = Bool(FALSE)
        /\ calls[p[2]].after = calls[p[1]].after

\* Calls i < j with no delete made between them.
NoDeleteBetween(i, j) == \A k \in (i+1)..(j-1) : calls[k].op # "delete"

\* C14, amended: the second delete(id) returns false and leaves the sequence as
\* it found it; the sequence is as the first delete left it when no other
\* delete ran in between either.
C14_RepeatedDeleteChangesNothing ==
    \A p \in RepeatedDeletes :
        /\ calls[p[2]].res = Bool(FALSE)
        /\ calls[p[2]].after = calls[p[2]].before
        /\ NoDeleteBetween(p[1], p[2]) => calls[p[2]].after = calls[p[1]].after

\* The example of the specification: ids [1,2,3], create -> 4, delete(2) ->
\* [1,3,4] and true, delete(2) again -> false.
C14_Witness ==
    \E p \in RepeatedDeletes :
        /\ calls[p[1]].id = Num(2)
        /\ \E k \in DoneCalls("create") : k < p[1] /\ calls[k].res.id = Num(4)
        /\ [k \in 1..Len(items) |-> items[k].id] = <<Num(1), Num(3), Num(4)>>
        /\ calls[p[2]].res = Bool(FALSE)

\* The fields of a record other than its primary key.
OtherFields(r) == DOMAIN r \ {primaryKey}

\* C17: create appends: the sequence is one longer, the new record is last,
\* the records present before are unchanged and in the same order, and the
\* record returned is the appended one, holding exactly the supplied fields
\* plus the primary key.
C17_CreateAppends ==
    \A i \in DoneCalls("create") :
        LET c == calls[i] IN
        /\ Len(c.after) = Len(c.before) + 1
        /\ c.after[Len(c.after)] = c.res
        /\ SubSeq(c.after, 1, Len(c.before)) = c.before
        /\ DOMAIN c.res = DOMAIN c.arg \cup {primaryKey}
        /\ \A f \in OtherFields(c.res) : c.res[f] = c.arg[f]
        /\ (c.order = nEffects => items = c.after)

\* A create on a sequence of several records, supplied with fields, has run.
C17_Witness ==
    \E i \in DoneCalls("create") :
        /\ Len(calls[i].before) >= 2
        /\ OtherFields(calls[i].res) # {}
        /\ calls[i].after[Len(calls[i].after)] = calls[i].res

\* C18: after a successful delete the sequence holds no record whose primary
\* key equals id, and what remains is exactly the records present before whose
\* key differs, unchanged and in their previous order.
C18_DeleteFilters ==
    \A i \in DoneCalls("delete") :
        LET c == calls[i]
            differs(r) == ~(r[primaryKey].t = c.id.t /\ r[primaryKey].n = c.id.n)
        IN c.res = Bool(TRUE) =>
            /\ \A k \in 1..Len(c.after) : differs(c.after[k])
            /\ c.after = SelectSeq(c.before, differs)
            /\ (c.order = nEffects => items = c.after)

\* A successful delete that removed a record from the middle and kept others
\* on both sides of it.
C18_Witness ==
    \E i \in DoneCalls("delete") :
        /\ calls[i].res = Bool(TRUE)
        /\ Len(calls[i].before) = 3
        /\ calls[i].before[2].id = calls[i].id
        /\ Len(calls[i].after) = 2


\* ---------------------------------------------------------------- C11, C12, C15

Mutations == {"create", "update", "delete"}

\* The arrays whose records refer to a business.
RefersToBusiness == {"offers", "feedbacks", "analytics"}

\* C11: a create, update or delete of one service changes only that service's
\* own sequence: deleting a Business leaves offers, feedbacks and analytics as
\* they were even when they hold records with the deleted B_ID, and
\* productService and promotionService never change each other's sequence.
C11_NoCascade ==
    db.last.kind \in Mutations =>
        /\ \A a \in ArrayNames \ {ServiceArray[db.last.svc]} :
                db.tables[a] = db.last.before[a]
        /\ db.last.svc = "productService" => db.tables.promotions = db.last.before.promotions
        /\ db.last.svc = "promotionService" => db.tables.products = db.last.before.products

\* Business 1 was deleted while offers, feedbacks and analytics each held a
\* record with B_ID 1, and they still hold it.
C11_Witness ==
    /\ db.last.kind = "delete" /\ db.last.svc = "businessService"
    /\ db.last.res = Bool(TRUE)
    /\ find(db.tables.businesses, Num(1)) = Undefined
    /\ \A a \in RefersToBusiness :
          \E i \in 1..Len(db.tables[a]) : db.tables[a][i].B_ID = Num(1)

\* The sequence and the foreign-key field each relationship query reads.
QueryReads ==
    [getBusinessOffers |-> <<"offers", "B_ID">>,
     getBusinessFeedback |-> <<"feedbacks", "B_ID">>,
     getBusinessAnalytics |-> <<"analytics", "B_ID">>,
     getCustomerTransactions |-> <<"transactions", "C_ID">>,
     getCustomerTier |-> <<"customerTiers", "C_ID">>,
     getCustomerReferrals |-> <<"referralPrograms", "Referred_C_id">>,
     getCustomerFeedback |-> <<"feedbacks", "C_ID">>,
     getCustomerFraudDetections |-> <<"fraudDetections", "C_ID">>,
     getTransactionRedemptions |-> <<"redemptions", "T_ID">>]

\* All records of a query's sequence whose foreign key is the parent id, in the
\* sequence's order.
AllMatches(q, t, id) ==
    LET its == t[QueryReads[q][1]]
        f == QueryReads[q][2]
        refers(r) == r[f] = id
    IN SelectSeq(its, refers)

\* The last query returned all matching records, an empty array when there are
\* none, and left every sequence as it was.
IsPureFilter ==
    /\ db.last.res.kind = "array"
    /\ db.last.res.v = AllMatches(db.last.svc, db.last.before, db.last.id)
    /\ db.tables = db.last.before

\* C12: each relationship query is a pure filter: all records of its sequence
\* whose foreign-key field equals the parent id, in insertion order, an empty
\* result when none match, no sequence modified.
C12_QueriesArePureFilters == db.last.kind = "query" => IsPureFilter

\* C12, amended: every query but getCustomerTier is a pure filter;
\* getCustomerTier returns the first record whose C_ID equals the id, or
\* undefined when none does, and modifies nothing either.
C12_FiltersAndOneFind ==
    db.last.kind = "query" =>
        IF db.last.svc # "getCustomerTier"
        THEN IsPureFilter
        ELSE LET all == AllMatches(db.last.svc, db.last.before, db.last.id) IN
             /\ db.tables = db.last.before
             /\ IF all = <<>>
                THEN db.last.res.kind = "undefined"
                ELSE db.last.res.kind = "record" /\ db.last.res.v = all[1]

\* A filter query returned two records in the sequence's order, the second of
\* them created after the seed.
C12_Witness ==
    /\ db.last.kind = "query" /\ db.last.svc # "getCustomerTier"
    /\ db.last.res.kind = "array" /\ Len(db.last.res.v) = 2
    /\ db.last.res.v[1].id.n < db.last.res.v[2].id.n

\* C15: a foreign key may refer to an id no record has, and the page then shows
\* the placeholder '-' and raises no error; a key that has a match shows the
\* matched record's name.
C15_MissingMatchShowsPlaceholder ==
    /\ db.lists.loaded = "BusinessPage" =>
          \A i \in 1..Len(db.lists.businesses) :
              LET m == Matches(db.lists.offers, db.lists.businesses[i].offer_id) IN
              db.lists.cells[i].Offer =
                  IF m = {} THEN "-" ELSE db.lists.offers[SetMin(m)].O_name
    /\ db.lists.loaded = "TransactionPage" =>
          \A i \in 1..Len(db.lists.transactions) :
              LET mc == Matches(db.lists.customers, db.lists.transactions[i].C_ID)
                  mp == Matches(db.lists.products, db.lists.transactions[i].P_ID)
              IN /\ db.lists.cells[i].Customer =
                      IF mc = {} THEN "-" ELSE db.lists.customers[SetMin(mc)].name
                 /\ db.lists.cells[i].Product =
                      IF mp = {} THEN "-" ELSE db.lists.products[SetMin(mp)].name

\* A page rendered a row whose foreign key refers to an id that no record of
\* the store has, left so by an update or by a delete of the record referred to.
C15_Witness ==
    /\ db.last.kind = "fetch"
    /\ \/ /\ db.lists.loaded = "BusinessPage"
          /\ \E i \in 1..Len(db.lists.businesses) :
                /\ db.lists.businesses[i].offer_id.t = "number"
                /\ Matches(db.tables.offers, db.lists.businesses[i].offer_id) = {}
                /\ db.lists.cells[i].Offer = "-"
       \/ /\ db.lists.loaded = "TransactionPage"
          /\ \E i \in 1..Len(db.lists.transactions) :
                /\ Matches(db.tables.customers, db.lists.transactions[i].C_ID) = {}
                /\ db.lists.cells[i].Customer = "-"


\* ---------------------------------------------------------------- C13

\* What each operation resolves with: create a record, getAll an array,
\* getById and update a record or undefined, delete a boolean.
IsRecord(v) == primaryKey \in DOMAIN v

IsArray(v) == DOMAIN v = 1..Len(v)

ResolvedAsDeclared(c) ==
    CASE c.op = "create" -> c.res # Undefined /\ IsRecord(c.res)
      [] c.op = "getAll" -> IsArray(c.res)
      [] c.op \in {"getById", "update"} -> c.res = Undefined \/ IsRecord(c.res)
      [] c.op = "delete" -> c.res \in {Bool(TRUE), Bool(FALSE)}

Completed(i) ==
    IF Len(calls) >= i
    THEN (IF calls[i].done THEN ResolvedAsDeclared(calls[i]) ELSE FALSE)
    ELSE FALSE

\* C13: every invoked operation eventually completes, with a value of the kind
\* it declares or an explicit absence, whatever else is pending meanwhile.
C13_EveryCallCompletes ==
    \A i \in 1..MaxCalls : (Len(calls) >= i) ~> Completed(i)

\* Three operations were pending at once and all of them have completed.
C13_Witness ==
    /\ Len(calls) >= 3
    /\ \A i \in 1..3 : Completed(i)
    /\ \A i \in 1..3 : calls[i].tCall < calls[1].due


\* ---------------------------------------------------------------- C16, C19, C20

HandlersDone == \A k \in 1..Len(page.handlers) : page.handlers[k].pc = "done"

\* C16: whenever all the handlers started on a mounted page have completed,
\* the list in the page's state equals the service's sequence, in order.
C16_ListEqualsStoreAfterHandlers ==
    (page.mounted /\ Started # {} /\ HandlersDone) => page.list = items

\* C16 on the pages that render their list as fetched.
C16_HoldsWithoutRenderSort ==
    (page.name # "AnalyticsPage" /\ page.mounted /\ Started # {} /\ HandlersDone)
        => page.list = items

\* Two handlers of TransactionPage overlapped and both have completed.
C16_OverlapReached ==
    /\ page.name = "TransactionPage" /\ page.mounted /\ HandlersDone
    /\ \E j, k \in Started :
          /\ j < k
          /\ calls[page.handlers[k].mut].tCall < calls[page.handlers[j].awaits].due

MutationCalls == {i \in 1..Len(calls) : calls[i].op \in Mutations}

\* C19: a create, update or delete, once invoked, is applied to the store
\* exactly once when its delay elapses, whether or not the component that
\* invoked it is still mounted: it is never overdue, what it did is its body
\* applied to the sequence it found, and the sequence it left is what the next
\* body found.
C19_NoCancellation ==
    \A i \in MutationCalls :
        LET c == calls[i] IN
        /\ ~c.done => now <= c.due
        /\ c.done =>
              /\ c.order >= 1
              /\ c.after = ApplyOp(c, c.before).items
              /\ c.res = ApplyOp(c, c.before).res
              /\ c.order = nEffects => items = c.after
              /\ \A j \in 1..Len(calls) :
                    (calls[j].done /\ j # i) =>
                        /\ calls[j].order # c.order
                        /\ calls[j].order = c.order + 1 => calls[j].before = c.after

\* A create invoked by a page took effect after the page was unmounted; its
\* handler ran to its end and the list it fetched was discarded.
C19_Witness ==
    /\ ~page.mounted /\ HandlersDone
    /\ \E k \in Started :
          LET c == calls[page.handlers[k].mut] IN
          /\ c.op = "create" /\ c.done /\ c.order > page.leftAt
          /\ Len(items) = Len(c.before) + 1
          /\ page.list # items

\* The handlers whose mutation resolved with an absence.
ToldAbsent ==
    {k \in Started :
        /\ calls[page.handlers[k].mut].done
        /\ calls[page.handlers[k].mut].res \in {Undefined, Bool(FALSE)}}

\* C20: when update returns undefined or delete returns false, the handler
\* takes the success path (success notification, list re-read, dialog closed),
\* never the failure notification, and its mutation call leaves the store as
\* it was.
C20_AbsenceIsSilent ==
    \A k \in ToldAbsent :
        LET h == page.handlers[k]
            c == calls[h.mut]
        IN /\ c.after = c.before
           /\ \A t \in 1..Len(page.toasts) :
                 page.toasts[t].handler = k => page.toasts[t].variant = "success"
           /\ h.pc = "reread" => calls[h.awaits].op = "getAll" /\ h.awaits > h.mut
           /\ h.pc = "done" =>
                 /\ calls[h.awaits].op = "getAll" /\ calls[h.awaits].done
                 /\ h.toast = "success"
                 /\ h.kind = "submit" => h.closed

\* A record was deleted while its edit was being submitted: update returned
\* undefined, and the handler notified success, re-read the list and closed the
\* dialog.
C20_Witness ==
    \E k \in ToldAbsent :
        /\ page.handlers[k].kind = "submit" /\ page.handlers[k].pc = "done"
        /\ calls[page.handlers[k].mut].res = Undefined
        /\ page.handlers[k].toast = "success" /\ page.handlers[k].closed


\* ---------------------------------------------------------------- C21, C22, C23

\* Calls i < j with nothing but reads made between them.
OnlyReadsBetween(i, j) ==
    \A k \in (i+1)..(j-1) : calls[k].op \in {"getAll", "getById"}

\* The largest primary key of a sequence of numeric keys.
LargestKey(its) == SetMax(KeyNumbers(its))

\* A delete that removed the record holding the largest id, followed by a
\* create with only reads in between.
DeletedMaxThenCreate ==
    {p \in DoneCalls("delete") \X DoneCalls("create") :
        /\ p[1] < p[2]
        /\ OnlyReadsBetween(p[1], p[2])
        /\ calls[p[1]].res = Bool(TRUE)
        /\ AllNumeric(calls[p[1]].before)
        /\ calls[p[1]].id = Num(LargestKey(calls[p[1]].before))}

\* The id the factory computes for a sequence: one more than the largest key,
\* 1 when the sequence is empty.
NewIdFor(its) == IF its = <<>> THEN 1 ELSE LargestKey(its) + 1

\* C21: ids are not retired: when the record holding the maximum id of the
\* sequence is deleted, the next create assigns that same id again.
C21_IdsAreReused ==
    \A p \in DeletedMaxThenCreate : calls[p[2]].res.id = calls[p[1]].id

\* C21, amended: after the record holding the maximum id is deleted, the next
\* create assigns one more than the largest id that remains (1 when nothing
\* remains), which is the deleted id again when the id just below it is still
\* present or the deleted id was 1.
C21_NextIdFollowsLargestRemaining ==
    \A p \in DeletedMaxThenCreate :
        LET left == calls[p[1]].after
            deleted == calls[p[1]].id.n
        IN /\ calls[p[2]].res.id = Num(NewIdFor(left))
           /\ calls[p[2]].res.id.n <= deleted
           /\ (deleted = 1 \/ deleted - 1 \in KeyNumbers(left))
                 => calls[p[2]].res.id = calls[p[1]].id

\* A create returned an id, the record was deleted, and a later create
\* returned the same id for another record.
C21_Witness ==
    \E p \in DeletedMaxThenCreate :
        \E k \in DoneCalls("create") :
            /\ k < p[1]
            /\ calls[k].res.id = calls[p[1]].id
            /\ calls[p[2]].res.id = calls[k].res.id
            /\ Matches(calls[p[1]].after, calls[k].res.id) = {}

\* C22: create ignores a primary key among the supplied fields: the key of the
\* record returned and of the record stored is the id the factory computed.
C22_CreateIgnoresSuppliedKey ==
    db.last.kind = "create" =>
        LET before == db.last.before[ServiceArray[db.last.svc]]
            after == db.tables[ServiceArray[db.last.svc]]
        IN /\ db.last.res.id = Num(NewIdFor(before))
           /\ after[Len(after)].id = Num(NewIdFor(before))
           /\ after[Len(after)] = db.last.res
           /\ Len(after) = Len(before) + 1

\* A create was given the key of a record already present and the record it
\* returned has another key.
C22_Witness ==
    /\ db.last.kind = "create"
    /\ primaryKey \in DOMAIN db.last.arg
    /\ Matches(db.last.before[ServiceArray[db.last.svc]], db.last.arg.id) # {}
    /\ db.last.res.id # db.last.arg.id

\* The positions of the customerTiers records that refer to a customer.
TiersOf(t, customerId) ==
    {i \in 1..Len(t.customerTiers) : t.customerTiers[i].C_ID = customerId}

\* C23: getCustomerTier returns at most one record, the first CustomerTier in
\* insertion order whose C_ID is the customer's, or absence when there is
\* none, also when several records refer to the customer; it modifies nothing.
C23_GetCustomerTierFirstOrAbsent ==
    (db.last.kind = "query" /\ db.last.svc = "getCustomerTier") =>
        LET tiers == TiersOf(db.last.before, db.last.id) IN
        /\ db.last.res.kind \in {"record", "undefined"}
        /\ db.last.res.kind = "undefined" <=> tiers = {}
        /\ db.last.res.kind = "record" =>
              db.last.res.v = db.last.before.customerTiers[SetMin(tiers)]
        /\ db.tables = db.last.before

\* Two CustomerTier records refer to customer 1 and getCustomerTier returned
\* the earlier of them.
C23_Witness ==
    /\ db.last.kind = "query" /\ db.last.svc = "getCustomerTier"
    /\ Cardinality(TiersOf(db.tables, db.last.id)) = 2
    /\ db.last.res.kind = "record"
    /\ db.last.res.v.id = Num(1)

\* The logins that have resolved and the logouts, by position in the log.
Logins == {i \in 1..Len(auth.log) : auth.log[i].op = "login" /\ auth.log[i].done}

Logouts == {i \in 1..Len(auth.log) : auth.log[i].op = "logout"}

\* Some MOCK_ADMINS entry has both the username and the password.
Valid(username, password) ==
    \E i \in 1..Len(MOCK_ADMINS) :
       MOCK_ADMINS[i].username = username /\ MOCK_ADMINS[i].password = password

C26_NoPasswordInSession ==
    auth.mounted =>
        /\ auth.admin # Null => "password" \notin DOMAIN auth.admin
        /\ (auth.storage # Absent /\ Parses(auth.storage)) =>
              "password" \notin DOMAIN parse(auth.storage)

\* The manager has logged in and is the admin held and stored.
C26_Witness ==
    /\ auth.mounted
    /\ \E i \in Logins : auth.log[i].res /\ auth.log[i].username = "manager"
    /\ auth.admin # Null /\ auth.admin.username = "manager"
    /\ auth.storage = stringify(auth.admin)

\* The logouts called while a login with valid credentials was waiting.
LogoutsDuringLogin(i) ==
    {j \in Logouts : i \in auth.log[j].pending}

PageInRange ==
    LET total == totalPages(table.data, table.searchTerm)
    IN table.page \in 1..(IF total > 1 THEN total ELSE 1)

\* Rows match the search and none of them is displayed.
EmptyPageOfRows ==
    /\ filteredData(table.data, table.searchTerm) # <<>>
    /\ paginatedData(table.data, table.searchTerm, table.page) = <<>>

\* C28: after any sequence of search-term changes, goToPage calls and
\* changes of the data prop, the page stays within 1..max(1, totalPages), and
\* the displayed slice is non-empty whenever the filtered data is non-empty.
C28_PageStaysInRange ==
    table.mounted => (PageInRange /\ ~EmptyPageOfRows)

\* C28, as far as it holds: while no record has been deleted, the page stays
\* within 1..max(1, totalPages) and a non-empty filtered list is displayed.
C28_HoldsWhileNoRecordIsDeleted ==
    (table.mounted /\ \A i \in 1..Len(table.ops) : table.ops[i] # "deleted") =>
        (PageInRange /\ ~EmptyPageOfRows)

\* The last page was displayed, under a search and after a record was
\* created, and goToPage was called.
C28_LastPageReached ==
    /\ table.mounted
    /\ table.searchTerm # <<>>
    /\ table.page > 1
    /\ table.page = totalPages(table.data, table.searchTerm)
    /\ \E i \in 1..Len(table.ops) : table.ops[i] = "created"
    /\ \A i \in 1..Len(table.ops) : table.ops[i] # "deleted"

====
